---- MODULE Spec2Model ----
(***************************************************************************)
(* Document ingestion and store of the goncalinho-chat server              *)
(* (src/server.js): the two JSON collections db.json and chunks.json, the  *)
(* upload, delete and list handlers, processFile, the two chunkers and     *)
(* searchChunks.  Spec and SpecOk are the server; SpecFn is one call of    *)
(* searchChunks, chunkText or chunkTable on arguments drawn from samples;  *)
(* SpecRead is the server started on a data directory whose files may be   *)
(* missing or unparseable; SpecUi is the App component of the client       *)
(* (src/unnamed/part_000) behind its password gate.                        *)
(*                                                                         *)
(* Text (file names, contents, metadata) is a sequence of one-character    *)
(* strings; ids are strings.  A handler runs atomically between its await  *)
(* points (one JavaScript thread), so every action of the server is the    *)
(* code between two awaits of one handler.                                 *)
(***************************************************************************)
EXTENDS Integers, Sequences, FiniteSets, TLC

\* ---------------------------------------------------------------- bounds
\* Number of upload requests that reach the handler with a file.
MaxUploads == 2

\* ------------------------------------------------------- program constants
PdfTargetSize == 1000
DocxTargetSize == 1500
TxtTargetSize == 1000
CsvGroupSize == 20
XlsxGroupSize == 20

\* ------------------------------------------------------------------ text
NL == "\n"
SP == " "

\* JavaScript's \s and String.prototype.trim whitespace, over the model's alphabet.
IsSpace(c) == c \in {" ", "\n", "\r", "\t"}

IsLineBreak(c) == c \in {"\n", "\r"}

Max(S) == CHOOSE m \in S : \A k \in S : k <= m

\* String.prototype.trim
Trim(s) ==
  LET keep == {i \in 1..Len(s) : ~IsSpace(s[i])}
  IN  IF keep = {} THEN <<>>
      ELSE SubSeq(s, CHOOSE i \in keep : \A k \in keep : i <= k, Max(keep))

\* Array.prototype.join
RECURSIVE Join(_, _)
Join(parts, sep) ==
  IF Len(parts) = 0 THEN <<>>
  ELSE IF Len(parts) = 1 THEN parts[1]
  ELSE parts[1] \o sep \o Join(Tail(parts), sep)

\* End of the match of /\n\s*\n/ that starts at the line feed s[i], or 0 when
\* there is none: \s* is greedy, so the match runs to the last line feed of the
\* whitespace run that s[i] begins.
MatchEnd(s, i) ==
  LET ends == {j \in (i + 1)..Len(s) :
                 /\ s[j] = NL
                 /\ \A k \in i..j : IsSpace(s[k])}
  IN  IF ends = {} THEN 0 ELSE Max(ends)

\* text.split(/\n\s*\n/): the pieces between the leftmost matches, empty pieces kept.
RECURSIVE SplitFrom(_, _, _)
SplitFrom(s, start, i) ==
  IF i > Len(s) THEN << SubSeq(s, start, Len(s)) >>
  ELSE IF s[i] = NL /\ MatchEnd(s, i) > 0
       THEN << SubSeq(s, start, i - 1) >>
              \o SplitFrom(s, MatchEnd(s, i) + 1, MatchEnd(s, i) + 1)
       ELSE SplitFrom(s, start, i + 1)

SplitParagraphs(text) == SplitFrom(text, 1, 1)

\* ---------------------------------------------------------------- chunkers
\* The loop of chunkText starting the new buffer empty after a flush, so that
\* the paragraph that caused the flush is dropped.
RECURSIVE ChunkTextLoopDropping(_, _, _, _)
ChunkTextLoopDropping(paragraphs, i, st, targetSize) ==
  IF i > Len(paragraphs) THEN st
  ELSE LET para == paragraphs[i]
           cur == st.currentChunk
       IN  IF Len(cur \o para) > targetSize /\ Len(cur) > 0
           THEN ChunkTextLoopDropping(paragraphs, i + 1,
                  [chunks |-> Append(st.chunks, Trim(cur)), currentChunk |-> <<>>],
                  targetSize)
           ELSE ChunkTextLoopDropping(paragraphs, i + 1,
                  [chunks |-> st.chunks,
                   currentChunk |-> cur \o (IF Len(cur) > 0 THEN <<NL, NL>> ELSE <<>>) \o para],
                  targetSize)

\* One pass of the for loop of chunkText over the paragraphs from index i on:
\* st = [chunks, currentChunk].
RECURSIVE ChunkTextLoop(_, _, _, _)
ChunkTextLoop(paragraphs, i, st, targetSize) ==
  IF i > Len(paragraphs) THEN st
  ELSE LET para == paragraphs[i]
           cur == st.currentChunk
       IN  IF Len(cur \o para) > targetSize /\ Len(cur) > 0
           THEN ChunkTextLoop(paragraphs, i + 1,
                  [chunks |-> Append(st.chunks, Trim(cur)), currentChunk |-> para],
                  targetSize)
           ELSE ChunkTextLoop(paragraphs, i + 1,
                  [chunks |-> st.chunks,
                   currentChunk |-> cur \o (IF Len(cur) > 0 THEN <<NL, NL>> ELSE <<>>) \o para],
                  targetSize)

chunkText(text, targetSize) ==
  LET fin == ChunkTextLoop(SplitParagraphs(text), 1,
                           [chunks |-> <<>>, currentChunk |-> <<>>], targetSize)
  IN  IF Len(fin.currentChunk) > 0
      THEN Append(fin.chunks, Trim(fin.currentChunk))
      ELSE fin.chunks

\* A row is an ordered mapping: a sequence of cells [k |-> column, v |-> text].
\* Object.keys(row)
Keys(row) == [i \in 1..Len(row) |-> row[i].k]

HasKey(row, h) == \E i \in 1..Len(row) : row[i].k = h

\* row[h] for a present key
Cell(row, h) == row[CHOOSE i \in 1..Len(row) : row[i].k = h].v

\* replace(/[\n\r]+/g, ' '): every run of line breaks becomes one space.
RECURSIVE CollapseBreaks(_)
CollapseBreaks(s) ==
  IF Len(s) = 0 THEN <<>>
  ELSE IF IsLineBreak(s[1])
       THEN IF Len(s) > 1 /\ IsLineBreak(s[2])
            THEN CollapseBreaks(Tail(s))
            ELSE <<SP>> \o CollapseBreaks(Tail(s))
       ELSE <<s[1]>> \o CollapseBreaks(Tail(s))

\* The cell text of column h of a row: '' for a missing (undefined or null) value.
RenderCell(row, h) ==
  IF ~HasKey(row, h) THEN <<>> ELSE Trim(CollapseBreaks(Cell(row, h)))

ColSep == <<SP, ";", SP>>

RenderRow(row, headers) ==
  Join([j \in 1..Len(headers) |-> RenderCell(row, headers[j])], ColSep)

\* rows.slice(i, i + size - 1): a slice one row short.
SliceShort(rows, i, size) ==
  SubSeq(rows, i + 1, IF i + size - 1 < Len(rows) THEN i + size - 1 ELSE Len(rows))

\* rows.slice(i, i + size) for a 0-based i
Slice(rows, i, size) ==
  SubSeq(rows, i + 1, IF i + size < Len(rows) THEN i + size ELSE Len(rows))

RECURSIVE ChunkTableLoop(_, _, _, _)
ChunkTableLoop(rows, headers, i, size) ==
  IF i >= Len(rows) THEN <<>>
  ELSE LET slice == Slice(rows, i, size)
           body  == Join([j \in 1..Len(slice) |-> RenderRow(slice[j], headers)], <<NL>>)
       IN  << Join(headers, ColSep) \o <<NL>> \o body >>
             \o ChunkTableLoop(rows, headers, i + size, size)

chunkTable(rows, size) ==
  IF Len(rows) = 0 THEN <<>>
  ELSE ChunkTableLoop(rows, Keys(rows[1]), 0, size)

\* ------------------------------------------------------------ sample inputs
UpperChars == <<"A","B","C","D","E","F","G","H","I","J","K","L","M",
                "N","O","P","Q","R","S","T","U","V","W","X","Y","Z">>
LowerChars == <<"a","b","c","d","e","f","g","h","i","j","k","l","m",
                "n","o","p","q","r","s","t","u","v","w","x","y","z">>

LowerChar(c) ==
  IF \E i \in 1..Len(UpperChars) : UpperChars[i] = c
  THEN LowerChars[CHOOSE i \in 1..Len(UpperChars) : UpperChars[i] = c]
  ELSE c

\* String.prototype.toLowerCase
ToLowerCase(s) == [i \in 1..Len(s) |-> LowerChar(s[i])]

\* path.extname of a bare file name: from the last '.' on, '' when there is no
\* '.' or the only one is the first character.
ExtName(name) ==
  LET dots == {i \in 1..Len(name) : name[i] = "."}
  IN  IF dots = {} \/ Max(dots) = 1 THEN <<>>
      ELSE SubSeq(name, Max(dots), Len(name))

\* ext.replace('.', ''): the first '.' removed.
DropFirstDot(ext) ==
  LET dots == {i \in 1..Len(ext) : ext[i] = "."}
  IN  IF dots = {} THEN ext
      ELSE LET d == CHOOSE i \in dots : \A k \in dots : i <= k
           IN  SubSeq(ext, 1, d - 1) \o SubSeq(ext, d + 1, Len(ext))

ExtPdf  == <<".", "p", "d", "f">>
ExtDocx == <<".", "d", "o", "c", "x">>
ExtCsv  == <<".", "c", "s", "v">>
ExtXlsx == <<".", "x", "l", "s", "x">>
ExtXls  == <<".", "x", "l", "s">>
ExtTxt  == <<".", "t", "x", "t">>

\* req.body of the uploads tried.
MetaPlain ==
  [description |-> <<>>, source |-> <<>>, period |-> <<>>,
   caseName |-> <<"n">>, category |-> "Geral"]

MetaFull ==
  [description |-> <<"o", "b", "s">>, source |-> <<"s", "u", "s">>,
   period |-> <<"2", "0", "2", "3">>,
   caseName |-> <<"D", "e", "n", "g", "u", "e">>, category |-> "Saude"]

Metas == {MetaPlain, MetaFull}

\* The uploads tried: req.file.originalname and req.body.
UploadInputs ==
  { [name |-> <<"r", ".", "p", "d", "f">>,      meta |-> MetaPlain],
    [name |-> <<"m", ".", "d", "o", "c", "x">>, meta |-> MetaFull],
    [name |-> <<"t", ".", "c", "s", "v">>,      meta |-> MetaPlain],
    [name |-> <<"t", ".", "c", "s", "v">>,      meta |-> MetaFull],
    [name |-> <<"S", ".", "X", "L", "S">>,      meta |-> MetaFull],
    [name |-> <<"n", ".", "t", "x", "t">>,      meta |-> MetaPlain],
    [name |-> <<"i", ".", "p", "n", "g">>,      meta |-> MetaFull],
    [name |-> <<"L", "E", "I", "A">>,           meta |-> MetaPlain] }

\* The Unicode replacement character U+FFFD.
ReplacementChar == "\\ufffd"

\* A table of n one-column rows.
RowsOf(n) == [i \in 1..n |-> << [k |-> <<"k">>, v |-> <<"v">>] >>]

NoParse == [threw |-> FALSE, text |-> <<>>, utf8 |-> <<>>, latin1 |-> <<>>,
            rows |-> <<>>, sheets |-> <<>>]

\* What the parsing library (pdf-parse, mammoth, csv-parse, xlsx) or the buffer
\* decoding can give for a temp file with extension ext: it throws, or gives
\* the text (data.text, result.value), the records, the sheets, or the two
\* decodings of the bytes.
ParseOutcomes(ext) ==
  IF ext = ExtPdf
  THEN {[NoParse EXCEPT !.threw = TRUE],
        [NoParse EXCEPT !.text = <<"a", NL, NL, "b">>]}
  ELSE IF ext = ExtDocx
  THEN {[NoParse EXCEPT !.threw = TRUE],
        [NoParse EXCEPT !.text = <<"c">>]}
  ELSE IF ext = ExtCsv
  THEN {[NoParse EXCEPT !.threw = TRUE],
        [NoParse EXCEPT !.rows = RowsOf(CsvGroupSize + 1)],
        [NoParse EXCEPT !.rows = <<>>]}
  ELSE IF ext \in {ExtXlsx, ExtXls}
  THEN {[NoParse EXCEPT !.threw = TRUE],
        [NoParse EXCEPT !.sheets = << [name |-> <<"p">>, rows |-> RowsOf(1)] >>]}
  ELSE IF ext = ExtTxt
  THEN {[NoParse EXCEPT !.utf8 = <<>>],
        [NoParse EXCEPT !.utf8 = <<ReplacementChar>>, !.latin1 = <<"e">>]}
  ELSE {NoParse}

\* ------------------------------------------------------------------ state
VARIABLES
  dbFile,      \* db.json:     [state, data], data = [files |-> sequence of documents]
  chunksFile,  \* chunks.json: [state, data], data = sequence of chunks
  tmpFiles,    \* ids of the upload requests whose multer temp file exists
  req,         \* the upload requests, by the number of the id they were given
  nextId,      \* number of ids crypto.randomUUID() has handed out
  res,         \* the last response sent
  call,        \* the call of searchChunks, chunkText or chunkTable being looked at
  ui           \* the state of the App component in the browser

vars == <<dbFile, chunksFile, tmpFiles, req, nextId, res, call, ui>>

\* crypto.randomUUID(): the n-th call returns a string no other call returns.
RandomUUID(n) == "d" \o ToString(n)

DocIds == {RandomUUID(n) : n \in 1..MaxUploads}

\* Outcomes of fs.writeFileSync: written; an error before the file is opened
\* (the file is as it was); an error after it was truncated (what is left does
\* not parse).
WriteOutcomes == {"ok", "eopen", "ewrite"}

\* ---------------------------------------------------------- database helpers
DbDefault == [files |-> <<>>]
ChunksDefault == <<>>

\* readJson(file, defaultVal): the default when the file is missing or when
\* reading or parsing it throws.
readJson(file, defaultVal) ==
  IF file.state = "missing" THEN defaultVal
  ELSE IF file.state = "corrupt" THEN defaultVal
  ELSE file.data

\* What an interrupted write leaves in a file: no JSON value.
Garbage == <<>>

\* writeJson(file, data): the file after the call; an error is caught and logged.
writeJson(file, data, outcome) ==
  IF outcome = "ok" THEN [state |-> "ok", data |-> data]
  ELSE IF outcome = "eopen" THEN file
  ELSE [state |-> "corrupt", data |-> Garbage]

WriteErrorLines == {"Error writing db.json", "Error writing chunks.json"}

\* The console.error lines writeJson leaves for the two writes of a handler.
WriteErrors(w1, w2) ==
  (IF w1 = "ok" THEN {} ELSE {"Error writing db.json"})
    \cup (IF w2 = "ok" THEN {} ELSE {"Error writing chunks.json"})

\* The collections as every handler reads them.
Files == readJson(dbFile, DbDefault).files
Chunks == readJson(chunksFile, ChunksDefault)

\* ------------------------------------------------------------- processFile
\* buffer.toString('utf8'), or 'latin1' when that holds the replacement character.
Decode(p) ==
  IF \E i \in 1..Len(p.utf8) : p.utf8[i] = ReplacementChar THEN p.latin1 ELSE p.utf8

\* rows.map(r => ({ _aba: sheetName, ...r })) over every sheet, concatenated.
RECURSIVE AllRecords(_)
AllRecords(sheets) ==
  IF Len(sheets) = 0 THEN <<>>
  ELSE [i \in 1..Len(sheets[1].rows) |->
          << [k |-> <<"_", "a", "b", "a">>, v |-> sheets[1].name] >> \o sheets[1].rows[i]]
       \o AllRecords(Tail(sheets))

IsAwaitedExt(ext) == ext \in {ExtPdf, ExtDocx}

\* The chunks processFile returns for extension ext when the library gave p.
ProcessChunks(ext, p) ==
  IF ext = ExtPdf THEN chunkText(p.text, PdfTargetSize)
  ELSE IF ext = ExtDocx THEN chunkText(p.text, DocxTargetSize)
  ELSE IF ext = ExtCsv THEN chunkTable(p.rows, CsvGroupSize)
  ELSE IF ext \in {ExtXlsx, ExtXls} THEN chunkTable(AllRecords(p.sheets), XlsxGroupSize)
  ELSE IF ext = ExtTxt THEN chunkText(Decode(p), TxtTargetSize)
  ELSE <<>>

\* finally { try { fs.unlinkSync(filePath) } catch (e) {} }: the temp file is
\* removed; unlinking a file that is not there throws and is swallowed.
Unlink(files, n) == files \ {n}

IdleReq == [pc |-> "idle", name |-> <<>>, meta |-> CHOOSE m \in Metas : TRUE,
            contentChunks |-> <<>>]

\* A request that has been answered: its file name and body are gone, the
\* chunks processFile gave it stay on record.
Answered(r) == [IdleReq EXCEPT !.pc = "done", !.contentChunks = r.contentChunks]

\* ------------------------------------------------------------------ records
\* The document record of an upload.  Its timestamp (Date.now()) is left out:
\* it is written once and no handler reads it.
NewFile(fileId, name, meta) ==
  [id |-> fileId, name |-> name, type |-> DropFirstDot(ExtName(name)),
   description |-> meta.description, source |-> meta.source, period |-> meta.period,
   caseName |-> meta.caseName, category |-> meta.category]

\* A chunk id that leaves the index out.
ChunkIdNoIndex(fileId, i) == fileId \o "_" \o ToString(0)

\* `${fileId}_${i}` for the 0-based index i
ChunkId(fileId, i) == fileId \o "_" \o ToString(i)

\* Chunks that take their description from the source field.
NewChunksSwapped(fileId, name, meta, contentChunks) ==
  [j \in 1..Len(contentChunks) |->
     [id |-> ChunkId(fileId, j - 1), fileId |-> fileId, content |-> contentChunks[j],
      category |-> meta.category, caseName |-> meta.caseName,
      description |-> meta.source, source |-> meta.source,
      period |-> meta.period, fileName |-> name]]

NewChunks(fileId, name, meta, contentChunks) ==
  [j \in 1..Len(contentChunks) |->
     [id |-> ChunkId(fileId, j - 1), fileId |-> fileId, content |-> contentChunks[j],
      category |-> meta.category, caseName |-> meta.caseName,
      description |-> meta.description, source |-> meta.source,
      period |-> meta.period, fileName |-> name]]

NoRes == [op |-> "none", id |-> "", status |-> 0, error |-> "", file |-> <<>>,
          files |-> <<>>, logged |-> {}]

\* No call of a function is being looked at.
NoCall == [fn |-> "none"]

\* The useState values of App when it mounts; alert is the text of the last
\* alert the page has shown.
UiInit ==
  [view |-> "chat", isAuthenticated |-> FALSE, showAuthModal |-> FALSE,
   authPassword |-> <<>>, alert |-> ""]

\* ------------------------------------------------------------------- Init
\* The server has just started on an empty data directory.
Init ==
  /\ dbFile = [state |-> "missing", data |-> DbDefault]
  /\ chunksFile = [state |-> "missing", data |-> ChunksDefault]
  /\ tmpFiles = {}
  /\ req = [n \in 1..MaxUploads |-> IdleReq]
  /\ nextId = 0
  /\ res = NoRes
  /\ call = NoCall
  /\ ui = UiInit

\* ---------------------------------------------------------------- handlers
\* POST /api/upload without a file part.
UploadNoFile ==
  /\ res' = [NoRes EXCEPT !.op = "upload", !.status = 400, !.error = "No file"]
  /\ UNCHANGED <<dbFile, chunksFile, tmpFiles, req, nextId, call, ui>>

\* processFile unlinking at the end of the try block instead of in a finally.
AfterParseNoFinally(n, name, meta, p) ==
  LET ext == ToLowerCase(ExtName(name))
  IN  /\ req' = [req EXCEPT ![n] =
                   IF p.threw
                   THEN [IdleReq EXCEPT !.pc = "rejected", !.name = name]
                   ELSE [pc |-> "resolved", name |-> name, meta |-> meta,
                         contentChunks |-> ProcessChunks(ext, p)]]
      /\ tmpFiles' = IF p.threw THEN tmpFiles \cup {n} ELSE Unlink(tmpFiles \cup {n}, n)

\* processFile throwing on an extension it does not know.
AfterParseRejectsUnknown(n, name, meta, p) ==
  LET ext == ToLowerCase(ExtName(name))
      known == ext \in {ExtPdf, ExtDocx, ExtCsv, ExtXlsx, ExtXls, ExtTxt}
  IN  /\ req' = [req EXCEPT ![n] =
                   IF p.threw \/ ~known
                   THEN [IdleReq EXCEPT !.pc = "rejected", !.name = name]
                   ELSE [pc |-> "resolved", name |-> name, meta |-> meta,
                         contentChunks |-> ProcessChunks(ext, p)]]
      /\ tmpFiles' = Unlink(tmpFiles \cup {n}, n)

\* processFile from the library's answer p to its return or throw: the catch
\* rethrows, the finally unlinks the temp file.
AfterParse(n, name, meta, p) ==
  LET ext == ToLowerCase(ExtName(name))
  IN  /\ req' = [req EXCEPT ![n] =
                   IF p.threw
                   THEN [IdleReq EXCEPT !.pc = "rejected", !.name = name]
                   ELSE [pc |-> "resolved", name |-> name, meta |-> meta,
                         contentChunks |-> ProcessChunks(ext, p)]]
      /\ tmpFiles' = Unlink(tmpFiles \cup {n}, n)

\* POST /api/upload with a .pdf or .docx file, up to the await of the library
\* inside processFile: multer has stored the temp file, the id is allocated.
UploadBeginAwait(name, meta) ==
  /\ nextId < MaxUploads
  /\ IsAwaitedExt(ToLowerCase(ExtName(name)))
  /\ nextId' = nextId + 1
  /\ tmpFiles' = tmpFiles \cup {nextId + 1}
  /\ req' = [req EXCEPT ![nextId + 1] =
               [pc |-> "parsing", name |-> name, meta |-> meta, contentChunks |-> <<>>]]
  /\ UNCHANGED <<dbFile, chunksFile, res, call, ui>>

\* POST /api/upload with any other file, up to the handler's await of
\* processFile, which has run to its end without suspending.
UploadBeginSync(name, meta, p) ==
  /\ nextId < MaxUploads
  /\ ~IsAwaitedExt(ToLowerCase(ExtName(name)))
  /\ p \in ParseOutcomes(ToLowerCase(ExtName(name)))
  /\ nextId' = nextId + 1
  /\ AfterParse(nextId + 1, name, meta, p)
  /\ UNCHANGED <<dbFile, chunksFile, res, call, ui>>

\* The library's promise settles and processFile runs to its end.
ParserSettle(n, p) ==
  /\ req[n].pc = "parsing"
  /\ p \in ParseOutcomes(ToLowerCase(ExtName(req[n].name)))
  /\ AfterParse(n, req[n].name, req[n].meta, p)
  /\ UNCHANGED <<dbFile, chunksFile, nextId, res, call, ui>>

\* An upload handler that read db.json before it awaited processFile: the
\* documents of the requests that began after this one are not in what it
\* writes back.
UploadCommitStale(n, w1, w2) ==
  /\ req[n].pc = "resolved"
  /\ LET fileId    == RandomUUID(n)
         older(f)  == \E m \in 1..n : f.id = RandomUUID(m)
         db        == [files |-> SelectSeq(readJson(dbFile, DbDefault).files, older)]
         newFile   == NewFile(fileId, req[n].name, req[n].meta)
         allChunks == readJson(chunksFile, ChunksDefault)
         newChunks == NewChunks(fileId, req[n].name, req[n].meta, req[n].contentChunks)
     IN  /\ dbFile' = writeJson(dbFile, [files |-> Append(db.files, newFile)], w1)
         /\ chunksFile' = writeJson(chunksFile, allChunks \o newChunks, w2)
         /\ res' = [NoRes EXCEPT !.op = "upload", !.id = fileId, !.status = 200,
                                 !.file = <<newFile>>, !.logged = WriteErrors(w1, w2)]
  /\ req' = [req EXCEPT ![n] = Answered(req[n])]
  /\ UNCHANGED <<tmpFiles, nextId, call, ui>>

\* An upload handler that is answered between its two writes: the document
\* is stored, its chunks are not.
UploadCommitHalf(n, w1, w2) ==
  /\ req[n].pc = "resolved"
  /\ LET fileId  == RandomUUID(n)
         db      == readJson(dbFile, DbDefault)
         newFile == NewFile(fileId, req[n].name, req[n].meta)
     IN  /\ dbFile' = writeJson(dbFile, [files |-> Append(db.files, newFile)], w1)
         /\ res' = [NoRes EXCEPT !.op = "upload", !.id = fileId, !.status = 200,
                                 !.file = <<newFile>>, !.logged = WriteErrors(w1, w2)]
  /\ req' = [req EXCEPT ![n] = Answered(req[n])]
  /\ UNCHANGED <<chunksFile, tmpFiles, nextId, call, ui>>

\* An upload handler that puts the new document and its chunks in front
\* (unshift for push, [...newChunks, ...allChunks]).
UploadCommitPrepend(n, w1, w2) ==
  /\ req[n].pc = "resolved"
  /\ LET fileId    == RandomUUID(n)
         db        == readJson(dbFile, DbDefault)
         newFile   == NewFile(fileId, req[n].name, req[n].meta)
         allChunks == readJson(chunksFile, ChunksDefault)
         newChunks == NewChunks(fileId, req[n].name, req[n].meta, req[n].contentChunks)
     IN  /\ dbFile' = writeJson(dbFile, [files |-> <<newFile>> \o db.files], w1)
         /\ chunksFile' = writeJson(chunksFile, newChunks \o allChunks, w2)
         /\ res' = [NoRes EXCEPT !.op = "upload", !.id = fileId, !.status = 200,
                                 !.file = <<newFile>>, !.logged = WriteErrors(w1, w2)]
  /\ req' = [req EXCEPT ![n] = Answered(req[n])]
  /\ UNCHANGED <<tmpFiles, nextId, call, ui>>

\* An upload handler that replaces the stored documents of the same file name
\* instead of adding to them.
UploadCommitReplacing(n, w1, w2) ==
  /\ req[n].pc = "resolved"
  /\ LET fileId    == RandomUUID(n)
         db        == readJson(dbFile, DbDefault)
         newFile   == NewFile(fileId, req[n].name, req[n].meta)
         allChunks == readJson(chunksFile, ChunksDefault)
         newChunks == NewChunks(fileId, req[n].name, req[n].meta, req[n].contentChunks)
         other(f)  == f.name # req[n].name
     IN  /\ dbFile' = writeJson(dbFile, [files |-> Append(SelectSeq(db.files, other), newFile)], w1)
         /\ chunksFile' = writeJson(chunksFile, allChunks \o newChunks, w2)
         /\ res' = [NoRes EXCEPT !.op = "upload", !.id = fileId, !.status = 200,
                                 !.file = <<newFile>>, !.logged = WriteErrors(w1, w2)]
  /\ req' = [req EXCEPT ![n] = Answered(req[n])]
  /\ UNCHANGED <<tmpFiles, nextId, call, ui>>

\* The upload handler after processFile returned: both collections are read,
\* extended and written, and the new document is sent.
UploadCommit(n, w1, w2) ==
  /\ req[n].pc = "resolved"
  /\ LET fileId    == RandomUUID(n)
         db        == readJson(dbFile, DbDefault)
         newFile   == NewFile(fileId, req[n].name, req[n].meta)
         allChunks == readJson(chunksFile, ChunksDefault)
         newChunks == NewChunks(fileId, req[n].name, req[n].meta, req[n].contentChunks)
     IN  /\ dbFile' = writeJson(dbFile, [files |-> Append(db.files, newFile)], w1)
         /\ chunksFile' = writeJson(chunksFile, allChunks \o newChunks, w2)
         /\ res' = [NoRes EXCEPT !.op = "upload", !.id = fileId, !.status = 200,
                                 !.file = <<newFile>>, !.logged = WriteErrors(w1, w2)]
  /\ req' = [req EXCEPT ![n] = Answered(req[n])]
  /\ UNCHANGED <<tmpFiles, nextId, call, ui>>

\* A handler that stores the document before it learns that processFile threw.
UploadCatchStores(n) ==
  /\ req[n].pc = "rejected"
  /\ dbFile' = writeJson(dbFile,
       [files |-> Append(readJson(dbFile, DbDefault).files,
                         NewFile(RandomUUID(n), req[n].name, req[n].meta))], "ok")
  /\ res' = [NoRes EXCEPT !.op = "upload", !.id = RandomUUID(n), !.status = 500,
                          !.error = "Processing failed", !.logged = {"Processing error"}]
  /\ req' = [req EXCEPT ![n] = Answered(req[n])]
  /\ UNCHANGED <<chunksFile, tmpFiles, nextId, call, ui>>

\* The upload handler's catch after processFile threw.
UploadCatch(n) ==
  /\ req[n].pc = "rejected"
  /\ res' = [NoRes EXCEPT !.op = "upload", !.id = RandomUUID(n), !.status = 500,
                          !.error = "Processing failed", !.logged = {"Processing error"}]
  /\ req' = [req EXCEPT ![n] = Answered(req[n])]
  /\ UNCHANGED <<dbFile, chunksFile, tmpFiles, nextId, call, ui>>

\* The document filter with its comparison turned round.
KeepsFileInverted(f, id) == f.id = id

\* f => f.id !== id and c => c.fileId !== id
KeepsFile(f, id) == f.id # id
KeepsChunk(c, id) == c.fileId # id

\* A delete handler over a readJson without its try and catch: the parse error
\* of an unreadable file ends the handler with status 500 before any write.
DeleteThrowing(id, w1, w2) ==
  IF dbFile.state = "corrupt" \/ chunksFile.state = "corrupt"
  THEN /\ res' = [NoRes EXCEPT !.op = "delete", !.id = id, !.status = 500]
       /\ UNCHANGED <<dbFile, chunksFile, tmpFiles, req, nextId, call, ui>>
  ELSE /\ LET db        == readJson(dbFile, DbDefault)
              keepF(f)  == KeepsFile(f, id)
              allChunks == readJson(chunksFile, ChunksDefault)
              keepC(c)  == KeepsChunk(c, id)
          IN  /\ dbFile' = writeJson(dbFile, [files |-> SelectSeq(db.files, keepF)], w1)
              /\ chunksFile' = writeJson(chunksFile, SelectSeq(allChunks, keepC), w2)
       /\ res' = [NoRes EXCEPT !.op = "delete", !.id = id, !.status = 200,
                               !.logged = WriteErrors(w1, w2)]
       /\ UNCHANGED <<tmpFiles, req, nextId, call, ui>>

\* DELETE /api/files/:id
Delete(id, w1, w2) ==
  /\ LET db        == readJson(dbFile, DbDefault)
         keepF(f)  == KeepsFile(f, id)
         allChunks == readJson(chunksFile, ChunksDefault)
         keepC(c)  == KeepsChunk(c, id)
     IN  /\ dbFile' = writeJson(dbFile, [files |-> SelectSeq(db.files, keepF)], w1)
         /\ chunksFile' = writeJson(chunksFile, SelectSeq(allChunks, keepC), w2)
  /\ res' = [NoRes EXCEPT !.op = "delete", !.id = id, !.status = 200,
                          !.logged = WriteErrors(w1, w2)]
  /\ UNCHANGED <<tmpFiles, req, nextId, call, ui>>

\* GET /api/files
ListFiles ==
  /\ res' = [NoRes EXCEPT !.op = "list", !.status = 200,
                          !.files = readJson(dbFile, DbDefault).files]
  /\ UNCHANGED <<dbFile, chunksFile, tmpFiles, req, nextId, call, ui>>

\* ----------------------------------------------------------- specifications
\* Steps that write no file.
NextQuiet ==
  \/ UploadNoFile
  \/ \E u \in UploadInputs : UploadBeginAwait(u.name, u.meta)
  \/ \E u \in UploadInputs :
       \E p \in ParseOutcomes(ToLowerCase(ExtName(u.name))) : UploadBeginSync(u.name, u.meta, p)
  \/ \E n \in 1..MaxUploads :
       \E p \in ParseOutcomes(ToLowerCase(ExtName(req[n].name))) : ParserSettle(n, p)
  \/ \E n \in 1..MaxUploads : UploadCatch(n)
  \/ ListFiles

\* The server where a write to a store file may fail.
Next ==
  \/ NextQuiet
  \/ \E n \in 1..MaxUploads, w1, w2 \in WriteOutcomes : UploadCommit(n, w1, w2)
  \/ \E id \in DocIds, w1, w2 \in WriteOutcomes : Delete(id, w1, w2)

Spec == Init /\ [][Next]_vars

\* The server on a file system where every write succeeds.
NextOk ==
  \/ NextQuiet
  \/ \E n \in 1..MaxUploads : UploadCommit(n, "ok", "ok")
  \/ \E id \in DocIds : Delete(id, "ok", "ok")

SpecOk == Init /\ [][NextOk]_vars

\* ------------------------------------------------------------ searchChunks
TopK == 15

\* query.split(/\s+/): the pieces between the maximal runs of whitespace, the
\* empty pieces at the two ends kept.
RECURSIVE SplitWhitespaceFrom(_, _, _)
SplitWhitespaceFrom(s, start, i) ==
  IF i > Len(s) THEN << SubSeq(s, start, Len(s)) >>
  ELSE IF IsSpace(s[i])
       THEN LET after == {j \in i..Len(s) : \A k \in i..j : IsSpace(s[k])}
            IN  << SubSeq(s, start, i - 1) >>
                  \o SplitWhitespaceFrom(s, Max(after) + 1, Max(after) + 1)
       ELSE SplitWhitespaceFrom(s, start, i + 1)

SplitWhitespace(s) == SplitWhitespaceFrom(s, 1, 1)

\* queryLower.split(/\s+/).filter(w => w.length > 2)
QueryTerms(queryLower) ==
  LET long(w) == Len(w) > 2 IN SelectSeq(SplitWhitespace(queryLower), long)

\* A comparison of the whole string (===) where includes was meant.
IncludesWhole(s, t) == s = t

\* String.prototype.includes
Includes(s, t) == \E i \in 0..(Len(s) - Len(t)) : SubSeq(s, i + 1, i + Len(t)) = t

\* No category filter: null, the default of the parameter.
NoFilter == ""

\* The category test turned round: the chunks of the category are left out.
ExcludedInverted(chunk, categoryFilter) ==
  categoryFilter # NoFilter /\ categoryFilter # "Geral" /\ chunk.category = categoryFilter

\* The test that gives a chunk the score -1.
Excluded(chunk, categoryFilter) ==
  categoryFilter # NoFilter /\ categoryFilter # "Geral" /\ chunk.category # categoryFilter

\* queryTerms.forEach(term => { if (contentLower.includes(term)) score += 1 })
RECURSIVE TermScore(_, _)
TermScore(contentLower, queryTerms) ==
  IF Len(queryTerms) = 0 THEN 0
  ELSE (IF Includes(contentLower, queryTerms[1]) THEN 1 ELSE 0)
         + TermScore(contentLower, Tail(queryTerms))

\* The score with the bonus of 2 for a period the query contains.
ScoreWithPeriod(chunk, queryLower, queryTerms) ==
  TermScore(ToLowerCase(chunk.content), queryTerms)
    + (IF Len(chunk.caseName) > 0 /\ Includes(queryLower, ToLowerCase(chunk.caseName))
       THEN 3 ELSE 0)
    + (IF Len(chunk.description) > 0 /\ Includes(queryLower, ToLowerCase(chunk.description))
       THEN 2 ELSE 0)
    + (IF Len(chunk.period) > 0 /\ Includes(queryLower, ToLowerCase(chunk.period))
       THEN 2 ELSE 0)

\* The score without the tests that caseName and description are not empty.
ScoreNoEmptyGuard(chunk, queryLower, queryTerms) ==
  TermScore(ToLowerCase(chunk.content), queryTerms)
    + (IF Includes(queryLower, ToLowerCase(chunk.caseName)) THEN 3 ELSE 0)
    + (IF Includes(queryLower, ToLowerCase(chunk.description)) THEN 2 ELSE 0)

\* The score of a chunk that is not excluded.
Score(chunk, queryLower, queryTerms) ==
  TermScore(ToLowerCase(chunk.content), queryTerms)
    + (IF Len(chunk.caseName) > 0 /\ Includes(queryLower, ToLowerCase(chunk.caseName))
       THEN 3 ELSE 0)
    + (IF Len(chunk.description) > 0 /\ Includes(queryLower, ToLowerCase(chunk.description))
       THEN 2 ELSE 0)

\* { ...chunk, score }
WithScore(chunk, score) ==
  [f \in DOMAIN chunk \cup {"score"} |-> IF f = "score" THEN score ELSE chunk[f]]

\* The array after .map
ScoreAll(allChunks, query, categoryFilter) ==
  LET queryLower == ToLowerCase(query)
      queryTerms == QueryTerms(queryLower)
  IN  [i \in 1..Len(allChunks) |->
         IF Excluded(allChunks[i], categoryFilter)
         THEN WithScore(allChunks[i], -1)
         ELSE WithScore(allChunks[i], Score(allChunks[i], queryLower, queryTerms))]

\* The comparator of an ascending sort.
CompareAscending(a, b) == a.score - b.score

\* (a, b) => b.score - a.score
Compare(a, b) == b.score - a.score

\* Array.prototype.sort, which is stable: each element goes behind the elements
\* already placed that the comparator does not put after it.
RECURSIVE SortFrom(_, _, _)
SortFrom(seq, i, sorted) ==
  IF i > Len(seq) THEN sorted
  ELSE LET x      == seq[i]
           before == {k \in 1..Len(sorted) : Compare(sorted[k], x) <= 0}
           at     == IF before = {} THEN 0 ELSE Max(before)
       IN  SortFrom(seq, i + 1,
                    SubSeq(sorted, 1, at) \o <<x>> \o SubSeq(sorted, at + 1, Len(sorted)))

Sort(seq) == SortFrom(seq, 1, <<>>)

\* searchChunks(query, categoryFilter) over the chunks read from chunks.json
searchChunks(query, categoryFilter) ==
  LET allChunks == readJson(chunksFile, ChunksDefault)
      scoring(c) == c.score > 0
  IN  IF Len(allChunks) = 0 THEN <<>>
      ELSE Slice(Sort(SelectSeq(ScoreAll(allChunks, query, categoryFilter), scoring)), 0, TopK)

\* --------------------------------------------------- calls of the functions
\* Row groups of the sample table.
SampleGroups == 17

MetaOther ==
  [description |-> <<>>, source |-> <<>>, period |-> <<>>,
   caseName |-> <<>>, category |-> "Educacao"]

WordCasos == <<"c", "a", "s", "o", "s">>
WordDengue == <<"d", "e", "n", "g", "u", "e">>

\* The one cell of row i of the sample table: the first row of each group of
\* CsvGroupSize rows carries the words of the group, the other rows "v".
SampleCell(i) ==
  LET g == (i - 1) \div CsvGroupSize
  IN  IF (i - 1) % CsvGroupSize # 0 THEN <<"v">>
      ELSE IF g % 3 = 0 THEN WordCasos \o <<SP>> \o WordDengue
      ELSE IF g % 3 = 1 THEN WordCasos
      ELSE <<"x">>

SampleTable ==
  [i \in 1..(SampleGroups * CsvGroupSize) |-> << [k |-> <<"k">>, v |-> SampleCell(i)] >>]

\* What the upload of file `name` with body `meta` stores as its n-th document
\* when processFile returns `blocks`.
StoredDoc(n, name, meta, blocks) ==
  [file   |-> NewFile(RandomUUID(n), name, meta),
   chunks |-> NewChunks(RandomUUID(n), name, meta, blocks)]

DocCasos ==
  StoredDoc(1, <<"m", ".", "d", "o", "c", "x">>, MetaFull,
            chunkText(<<"C">> \o Tail(WordCasos), DocxTargetSize))

DocCasosDengue ==
  StoredDoc(2, <<"m", ".", "d", "o", "c", "x">>, MetaFull,
            chunkText(<<"C">> \o Tail(WordCasos) \o <<SP, "d", "e", SP, "D">> \o Tail(WordDengue),
                      DocxTargetSize))

DocOther ==
  StoredDoc(3, <<"n", ".", "t", "x", "t">>, MetaOther,
            chunkText(<<"x", "y", "z">>, TxtTargetSize))

DocTable ==
  StoredDoc(4, <<"t", ".", "c", "s", "v">>, MetaPlain, chunkTable(SampleTable, CsvGroupSize))

\* The two store files after the uploads of docs, in that order.
RECURSIVE StoreOf(_)
StoreOf(docs) ==
  IF Len(docs) = 0 THEN [files |-> <<>>, chunks |-> <<>>]
  ELSE LET rest == StoreOf(SubSeq(docs, 1, Len(docs) - 1))
           last == docs[Len(docs)]
       IN  [files  |-> Append(rest.files, last.file),
            chunks |-> rest.chunks \o last.chunks]

SampleStores ==
  { StoreOf(<<>>),
    StoreOf(<<DocCasos, DocOther>>),
    StoreOf(<<DocOther, DocCasosDengue, DocCasos>>),
    StoreOf(<<DocTable>>),
    StoreOf(<<DocOther, DocTable, DocCasos, DocCasosDengue>>) }

QueryScenario == WordDengue \o <<SP>> \o WordCasos \o <<SP, "2", "0", "2", "3">>

SampleQueries ==
  { QueryScenario,
    WordCasos,
    <<"C", "A", "S", "O", "S", SP, SP, "o", "b", "s">>,
    <<SP>> \o WordCasos \o <<"\t">> \o WordCasos \o <<NL, "x", "y", "z", SP>>,
    <<>>,
    <<"n">>,
    <<"d", "e", SP, "u", "m">>,
    <<"D", "e", "n", "g", "u", "e">> }

SampleFilters == {NoFilter, "Geral", "Saude", "Educacao"}

\* A server started on a data directory that earlier uploads and deletes left.
InitSearch ==
  /\ \/ /\ dbFile = [state |-> "missing", data |-> DbDefault]
        /\ chunksFile = [state |-> "missing", data |-> ChunksDefault]
     \/ \E st \in SampleStores :
          /\ dbFile = [state |-> "ok", data |-> [files |-> st.files]]
          /\ chunksFile = [state |-> "ok", data |-> st.chunks]
  /\ tmpFiles = {}
  /\ req = [n \in 1..MaxUploads |-> IdleReq]
  /\ nextId = 0
  /\ res = NoRes
  /\ ui = UiInit
  /\ \E q \in SampleQueries, cf \in SampleFilters :
       call = [fn |-> "searchChunks", done |-> FALSE, query |-> q, categoryFilter |-> cf,
               scored |-> <<>>, ret |-> <<>>]

\* searchChunks(query, categoryFilter) runs: the call keeps what .map gave and
\* what the function returned.
SearchCall ==
  /\ call.fn = "searchChunks" /\ ~call.done
  /\ call' = [call EXCEPT
                !.done = TRUE,
                !.scored = ScoreAll(readJson(chunksFile, ChunksDefault),
                                    call.query, call.categoryFilter),
                !.ret = searchChunks(call.query, call.categoryFilter)]
  /\ UNCHANGED <<dbFile, chunksFile, tmpFiles, req, nextId, res, ui>>

\* Pieces the sample texts are put together from.
MaxPieces == 5

\* Largest target size tried on the sample texts.
MaxTargetSize == 3

\* Largest number of rows of a sample table.
MaxRows == 25

TextPieces == { <<"a">>, <<"b">>, <<SP>>, <<NL>>, <<NL, NL>> }

\* The texts of at most n pieces.
RECURSIVE TextsOf(_)
TextsOf(n) ==
  IF n = 0 THEN { <<>> }
  ELSE LET shorter == TextsOf(n - 1)
       IN  shorter \cup {t \o p : t \in shorter, p \in TextPieces}

ColNome == <<"n", "o", "m", "e">>
ColIdade == <<"i", "d", "a", "d", "e">>

\* Row i of a table whose rows all have the columns nome and idade.
FullRow(i) ==
  << [k |-> ColNome, v |-> <<"p">>], [k |-> ColIdade, v |-> <<"7">>] >>

\* Row i of a sheet with blank cells (the key is missing), a column the first
\* row has not, and line breaks and blanks inside a cell.
RaggedRow(i) ==
  IF i % 4 = 1 THEN FullRow(i)
  ELSE IF i % 4 = 2 THEN << [k |-> ColNome, v |-> <<"q">>] >>
  ELSE IF i % 4 = 3
  THEN << [k |-> <<"u", "f">>, v |-> <<"s", "c">>], [k |-> ColIdade, v |-> <<"8">>] >>
  ELSE << [k |-> ColNome, v |-> <<SP, "r", "\r", NL, "s", NL>>],
          [k |-> ColIdade, v |-> <<>>] >>

SampleRows ==
  {[i \in 1..n |-> FullRow(i)] : n \in 0..MaxRows}
    \cup {[i \in 1..n |-> RaggedRow(i)] : n \in 0..MaxRows}

GroupSizes == {1, 3, CsvGroupSize}

\* The store and the requests while a chunker is looked at: a server just started.
InitQuiet ==
  /\ dbFile = [state |-> "missing", data |-> DbDefault]
  /\ chunksFile = [state |-> "missing", data |-> ChunksDefault]
  /\ tmpFiles = {}
  /\ req = [n \in 1..MaxUploads |-> IdleReq]
  /\ nextId = 0
  /\ res = NoRes
  /\ ui = UiInit

InitChunkText ==
  /\ InitQuiet
  /\ \E t \in TextsOf(MaxPieces), size \in 0..MaxTargetSize :
       call = [fn |-> "chunkText", done |-> FALSE, text |-> t, targetSize |-> size,
               ret |-> <<>>]

InitChunkTable ==
  /\ InitQuiet
  /\ \E rows \in SampleRows, size \in GroupSizes :
       call = [fn |-> "chunkTable", done |-> FALSE, rows |-> rows, size |-> size,
               ret |-> <<>>]

\* chunkText(text, targetSize) runs.
ChunkTextCall ==
  /\ call.fn = "chunkText" /\ ~call.done
  /\ call' = [call EXCEPT !.done = TRUE, !.ret = chunkText(call.text, call.targetSize)]
  /\ UNCHANGED <<dbFile, chunksFile, tmpFiles, req, nextId, res, ui>>

\* chunkTable(rows, size) runs.
ChunkTableCall ==
  /\ call.fn = "chunkTable" /\ ~call.done
  /\ call' = [call EXCEPT !.done = TRUE, !.ret = chunkTable(call.rows, call.size)]
  /\ UNCHANGED <<dbFile, chunksFile, tmpFiles, req, nextId, res, ui>>

InitFn == InitSearch \/ InitChunkText \/ InitChunkTable

NextFn == SearchCall \/ ChunkTextCall \/ ChunkTableCall

SpecFn == InitFn /\ [][NextFn]_vars

\* ------------------------------------------ the server on a damaged directory
\* A document that an earlier run of the server stored.
DocOld ==
  StoredDoc(0, <<"m", ".", "d", "o", "c", "x">>, MetaFull,
            chunkText(<<"C">> \o Tail(WordCasos), DocxTargetSize))

\* What the server can find of db.json and of chunks.json when it starts: no
\* file, a file that does not parse, or the file the earlier run wrote.
DbConditions ==
  { [state |-> "missing", data |-> DbDefault],
    [state |-> "corrupt", data |-> Garbage],
    [state |-> "ok", data |-> [files |-> << DocOld.file >>]] }

ChunksConditions ==
  { [state |-> "missing", data |-> ChunksDefault],
    [state |-> "corrupt", data |-> Garbage],
    [state |-> "ok", data |-> DocOld.chunks] }

InitRead ==
  /\ dbFile \in DbConditions
  /\ chunksFile \in ChunksConditions
  /\ tmpFiles = {}
  /\ req = [n \in 1..MaxUploads |-> IdleReq]
  /\ nextId = 0
  /\ res = NoRes
  /\ call = NoCall
  /\ ui = UiInit

\* The uploads tried on the damaged directory.
ReadInputs ==
  { [name |-> <<"r", ".", "p", "d", "f">>, meta |-> MetaPlain],
    [name |-> <<"t", ".", "c", "s", "v">>, meta |-> MetaFull] }

NextRead ==
  \/ UploadNoFile
  \/ \E u \in ReadInputs : UploadBeginAwait(u.name, u.meta)
  \/ \E u \in ReadInputs :
       \E p \in ParseOutcomes(ToLowerCase(ExtName(u.name))) : UploadBeginSync(u.name, u.meta, p)
  \/ \E n \in 1..MaxUploads :
       \E p \in ParseOutcomes(ToLowerCase(ExtName(req[n].name))) : ParserSettle(n, p)
  \/ \E n \in 1..MaxUploads : UploadCatch(n)
  \/ ListFiles
  \/ \E n \in 1..MaxUploads : UploadCommit(n, "ok", "ok")
  \/ \E id \in DocIds \cup {RandomUUID(0)} : Delete(id, "ok", "ok")

\* The server started on a directory whose store files may be missing or
\* unreadable, on a file system where every write succeeds.
SpecRead == InitRead /\ [][NextRead]_vars

\* ------------------------------------------------------- the App component
ACCESS_PASSWORD ==
  <<"i", "V", "Y", "U", "-", "/", "m", "6", "9", "h",
    "Z", "j", "o", "T", "G", "q", "o", "b", "W", "x">>

\* What the password field can be made to hold: the password, what is typed
\* on the way to it, a slip after any of that, and the password in lower case.
TypedPasswords ==
  {SubSeq(ACCESS_PASSWORD, 1, n) : n \in 0..Len(ACCESS_PASSWORD)}
    \cup {Append(SubSeq(ACCESS_PASSWORD, 1, n), "x") : n \in 0..Len(ACCESS_PASSWORD)}
    \cup {ToLowerCase(ACCESS_PASSWORD)}

\* The server and the calls, which the component does not touch.
UiFrame == UNCHANGED <<dbFile, chunksFile, tmpFiles, req, nextId, res, call>>

\* onClick={() => setView('chat')} of the Conversa and Voltar buttons
ClickChat ==
  /\ ui' = [ui EXCEPT !.view = "chat"]
  /\ UiFrame

\* handleDataViewClick, the onClick of the Dados button
handleDataViewClick ==
  /\ ui' = IF ui.isAuthenticated
           THEN [ui EXCEPT !.view = "upload"]
           ELSE [ui EXCEPT !.showAuthModal = TRUE]
  /\ UiFrame

\* onChange of the password field of the modal
ChangePassword(value) ==
  /\ ui.showAuthModal
  /\ ui' = [ui EXCEPT !.authPassword = value]
  /\ UiFrame

\* onClick of the X button of the modal
CloseAuthModal ==
  /\ ui.showAuthModal
  /\ ui' = [ui EXCEPT !.showAuthModal = FALSE]
  /\ UiFrame

\* A submit handler that sets the view after the test of the password
\* instead of inside it.
handleAuthSubmitViewAlways ==
  /\ ui.showAuthModal
  /\ ui' = IF ui.authPassword = ACCESS_PASSWORD
           THEN [ui EXCEPT !.isAuthenticated = TRUE, !.showAuthModal = FALSE,
                           !.authPassword = <<>>, !.view = "upload"]
           ELSE [ui EXCEPT !.alert = "Senha incorreta!", !.view = "upload"]
  /\ UiFrame

\* handleAuthSubmit, the onSubmit of the form of the modal
handleAuthSubmit ==
  /\ ui.showAuthModal
  /\ ui' = IF ui.authPassword = ACCESS_PASSWORD
           THEN [ui EXCEPT !.isAuthenticated = TRUE, !.showAuthModal = FALSE,
                           !.authPassword = <<>>, !.view = "upload"]
           ELSE [ui EXCEPT !.alert = "Senha incorreta!"]
  /\ UiFrame

InitUi ==
  /\ dbFile = [state |-> "missing", data |-> DbDefault]
  /\ chunksFile = [state |-> "missing", data |-> ChunksDefault]
  /\ tmpFiles = {}
  /\ req = [n \in 1..MaxUploads |-> IdleReq]
  /\ nextId = 0
  /\ res = NoRes
  /\ call = NoCall
  /\ ui = UiInit

NextUi ==
  \/ ClickChat
  \/ handleDataViewClick
  \/ \E value \in TypedPasswords : ChangePassword(value)
  \/ CloseAuthModal
  \/ handleAuthSubmit

\* The App component in one browser tab.
SpecUi == InitUi /\ [][NextUi]_vars

\* ------------------------------------------------------------ the claims
Range(seq) == {seq[i] : i \in 1..Len(seq)}

FileIds == {f.id : f \in Range(Files)}

\* The stored chunks of document id, in stored order.
ChunksOf(id) == LET own(c) == c.fileId = id IN SelectSeq(Chunks, own)

RecognizedExts == {ExtPdf, ExtDocx, ExtCsv, ExtXlsx, ExtXls, ExtTxt}

\* Request n is answered by this step.
Answers(n) == req[n].pc \in {"resolved", "rejected"} /\ req'[n].pc = "done"

\* C1: after a delete request for an id has been answered, no stored document
\* has that id and no stored chunk has it as fileId.
C1_CascadeDelete ==
  res.op = "delete" =>
    /\ \A f \in Range(Files) : f.id # res.id
    /\ \A c \in Range(Chunks) : c.fileId # res.id

\* C2: every stored chunk belongs to a stored document, also after requests
\* during which a write failed.
C2_NoOrphanChunks ==
  \A c \in Range(Chunks) : c.fileId \in FileIds

\* C3: an upload during which a write of db.json or chunks.json failed is
\* answered with the 'Processing failed' error, never with the new document.
C3_WriteFailureSurfaced ==
  (res.op = "upload" /\ res.logged \cap WriteErrorLines # {}) =>
    (res.status = 500 /\ res.error = "Processing failed" /\ res.file = <<>>)

\* C4: whatever the interleaving of the requests in flight, an upload answered
\* with success has its document and all its chunks stored, and a step drops a
\* stored document or chunk only as the delete of its id.
C4_NoLostUpdate ==
  [][ /\ \A n \in 1..MaxUploads :
           (Answers(n) /\ res'.status = 200) =>
             /\ NewFile(RandomUUID(n), req[n].name, req[n].meta) \in Range(Files')
             /\ ChunksOf(RandomUUID(n))' =
                  NewChunks(RandomUUID(n), req[n].name, req[n].meta, req[n].contentChunks)
      /\ \A f \in Range(Files) :
           f \in Range(Files') \/ (res'.op = "delete" /\ res'.id = f.id)
      /\ \A c \in Range(Chunks) :
           c \in Range(Chunks') \/ (res'.op = "delete" /\ res'.id = c.fileId)
    ]_vars

\* Upload 2 was answered while upload 1, begun before it, was still in flight,
\* and both documents are stored.
C4_Witness ==
  /\ req[1].pc = "done" /\ req[2].pc = "done"
  /\ Len(Files) = 2 /\ Files[1].id = RandomUUID(2) /\ Files[2].id = RandomUUID(1)
  /\ Len(ChunksOf(RandomUUID(1))) > 0 /\ Len(ChunksOf(RandomUUID(2))) > 0

\* Every stored chunk has its document stored, and every stored document has
\* all the chunks its upload produced, in block order.
StoreWhole ==
  /\ \A c \in Range(Chunks) : c.fileId \in FileIds
  /\ \A n \in 1..MaxUploads :
       RandomUUID(n) \in FileIds =>
         /\ Len(ChunksOf(RandomUUID(n))) = Len(req[n].contentChunks)
         /\ \A j \in 1..Len(req[n].contentChunks) :
              ChunksOf(RandomUUID(n))[j].content = req[n].contentChunks[j]

\* C5: when no write fails, no state a list-files or search request can read
\* holds a document without its chunks or chunks without their document, and
\* the documents list-files returned are stored whole.
C5_NoHalfAppliedMutation ==
  /\ StoreWhole
  /\ res.op = "list" => res.files = Files

\* A list-files request has been answered with a document whose upload produced
\* more than one chunk, while another upload is in flight.
C5_Witness ==
  /\ res.op = "list" /\ Len(res.files) > 0
  /\ Len(ChunksOf(res.files[1].id)) > 1
  /\ \E n \in 1..MaxUploads : req[n].pc \in {"parsing", "resolved"}

\* C6: the stored chunks of an upload that produced N content blocks have the
\* ids fileId_0 .. fileId_(N-1) in block order, and no two stored chunks share
\* an id.
C6_ChunkIdsUnique ==
  /\ \A i, j \in 1..Len(Chunks) : i # j => Chunks[i].id # Chunks[j].id
  /\ \A n \in 1..MaxUploads :
       LET own == ChunksOf(RandomUUID(n))
       IN  own # <<>> =>
             /\ Len(own) = Len(req[n].contentChunks)
             /\ \A j \in 1..Len(own) :
                  /\ own[j].id = RandomUUID(n) \o "_" \o ToString(j - 1)
                  /\ own[j].content = req[n].contentChunks[j]

\* Two uploads have chunks stored, one of them more than one.
C6_Witness ==
  /\ Len(ChunksOf(RandomUUID(1))) > 1
  /\ Len(ChunksOf(RandomUUID(2))) > 0

\* C7: a delete of an id that is not stored is answered with success and leaves
\* both collections as they were, and so does a delete that follows a delete of
\* the same id.
C7_DeleteIdempotent ==
  [][ res'.op = "delete" =>
        /\ res'.status = 200
        /\ (res'.id \notin FileIds /\ ChunksOf(res'.id) = <<>>) =>
             (Files' = Files /\ Chunks' = Chunks)
        /\ (res.op = "delete" /\ res.id = res'.id) =>
             (Files' = Files /\ Chunks' = Chunks)
    ]_vars

\* A delete of an id that was never stored has been answered while another
\* document and its chunks are stored.
C7_Witness ==
  /\ res.op = "delete" /\ res.id = RandomUUID(2) /\ req[2].pc = "idle"
  /\ Len(Files) = 1 /\ Len(Chunks) > 0

\* C8: when the parser throws, the upload is answered with 'Processing failed'
\* and no step of that request changes db.json or chunks.json.
C8_ExtractionFailureAtomic ==
  [][ \A n \in 1..MaxUploads :
        /\ (req[n].pc = "rejected" /\ req'[n].pc # "rejected") =>
             /\ req'[n].pc = "done"
             /\ res'.op = "upload" /\ res'.id = RandomUUID(n)
             /\ res'.status = 500 /\ res'.error = "Processing failed"
             /\ res'.file = <<>>
             /\ dbFile' = dbFile /\ chunksFile' = chunksFile
        /\ (req[n].pc # "rejected" /\ req'[n].pc = "rejected") =>
             (dbFile' = dbFile /\ chunksFile' = chunksFile)
    ]_vars

\* An upload whose parser threw has been answered while a document and its
\* chunks are stored.
C8_Witness ==
  /\ res.op = "upload" /\ res.status = 500 /\ res.error = "Processing failed"
  /\ Len(Files) > 0 /\ Len(Chunks) > 0

\* C9: once processFile has returned or thrown for an upload, its temp file
\* does not exist.
C9_TempFileRemoved ==
  \A n \in 1..MaxUploads :
    req[n].pc \in {"resolved", "rejected", "done"} => n \notin tmpFiles

\* processFile threw for an awaited (.pdf or .docx) upload while the temp file
\* of another upload, still being parsed, exists.
C9_Witness ==
  \E n, m \in 1..MaxUploads :
    /\ req[n].pc = "rejected" /\ IsAwaitedExt(ToLowerCase(ExtName(req[n].name)))
    /\ n \notin tmpFiles
    /\ req[m].pc = "parsing" /\ m \in tmpFiles

\* C10: an upload with an unrecognized extension is no error: processFile
\* returns no chunk, and the handler answers with success, appends exactly
\* the new document and leaves the chunk collection as it was.
C10_UnknownExtensionAccepted ==
  [][ \A n \in 1..MaxUploads :
        /\ (req[n].pc = "idle" /\ req'[n].pc # "idle"
              /\ ToLowerCase(ExtName(req'[n].name)) \notin RecognizedExts) =>
             (req'[n].pc = "resolved" /\ req'[n].contentChunks = <<>>)
        /\ (req[n].pc \in {"resolved", "rejected"} /\ req'[n].pc = "done"
              /\ ToLowerCase(ExtName(req[n].name)) \notin RecognizedExts) =>
             /\ res'.op = "upload" /\ res'.status = 200
             /\ res'.file = << NewFile(RandomUUID(n), req[n].name, req[n].meta) >>
             /\ Files' = Append(Files, NewFile(RandomUUID(n), req[n].name, req[n].meta))
             /\ Chunks' = Chunks
    ]_vars

\* An upload of a file with an unrecognized extension has been answered with
\* success while chunks of another document are stored.
C10_Witness ==
  /\ res.op = "upload" /\ res.status = 200
  /\ ToLowerCase(ExtName(res.file[1].name)) \notin RecognizedExts
  /\ res.file[1] \in Range(Files)
  /\ Len(Chunks) > 0

\* C11: a successful upload leaves the document collection equal to the
\* previous one followed by the new document, and the chunk collection equal
\* to the previous one followed by the new chunks in content-block order; no
\* step reorders the documents that stay, and a new document never comes
\* before an older one, so a listing returns the documents in insertion order.
C11_AppendInOrder ==
  [][ /\ \A n \in 1..MaxUploads :
           (req[n].pc = "resolved" /\ req'[n].pc = "done") =>
             LET blocks == req[n].contentChunks
             IN  /\ Len(Files') = Len(Files) + 1
                 /\ SubSeq(Files', 1, Len(Files)) = Files
                 /\ Files'[Len(Files')].id = RandomUUID(n)
                 /\ Files'[Len(Files')].name = req[n].name
                 /\ res'.file = << Files'[Len(Files')] >>
                 /\ Len(Chunks') = Len(Chunks) + Len(blocks)
                 /\ SubSeq(Chunks', 1, Len(Chunks)) = Chunks
                 /\ \A j \in 1..Len(blocks) :
                      /\ Chunks'[Len(Chunks) + j].fileId = RandomUUID(n)
                      /\ Chunks'[Len(Chunks) + j].content = blocks[j]
      /\ LET stays(f) == f \in Range(Files')
             old(f)   == f \in Range(Files)
         IN  /\ SelectSeq(Files, stays) = SelectSeq(Files', old)
             /\ \A i, j \in 1..Len(Files') :
                  (~old(Files'[i]) /\ old(Files'[j])) => j < i
      /\ (res'.op = "list" /\ res' # res) => res'.files = Files
    ]_vars

\* Two documents are listed, the one stored first being the one whose upload
\* began second, and the store holds the chunks of both in that order.
C11_Witness ==
  /\ res.op = "list"
  /\ Len(res.files) = 2
  /\ res.files[1].id = RandomUUID(2)
  /\ res.files[2].id = RandomUUID(1)
  /\ Len(Chunks) >= 3
  /\ Chunks[1].fileId = RandomUUID(2)
  /\ Chunks[2].content # Chunks[1].content
  /\ Chunks[Len(Chunks)].fileId = RandomUUID(1)

\* C12: in every store state, the category, caseName, description, source,
\* period and fileName of each chunk are those of the document whose id is
\* the chunk's fileId.
C12_DenormalizedMetadata ==
  \A i \in 1..Len(Chunks) : \A k \in 1..Len(Files) :
    Files[k].id = Chunks[i].fileId =>
      /\ Chunks[i].category = Files[k].category
      /\ Chunks[i].caseName = Files[k].caseName
      /\ Chunks[i].description = Files[k].description
      /\ Chunks[i].source = Files[k].source
      /\ Chunks[i].period = Files[k].period
      /\ Chunks[i].fileName = Files[k].name

\* Two documents with different metadata are stored, each with a chunk.
C12_Witness ==
  /\ \E i, j \in 1..Len(Chunks) :
       /\ Chunks[i].description # Chunks[j].description
       /\ Chunks[i].source # Chunks[j].source
       /\ Chunks[i].fileName # Chunks[j].fileName
  /\ \A i \in 1..Len(Chunks) : Chunks[i].fileId \in FileIds
  /\ Len(Files) = 2

\* ------------------------------------------------- the claims on searchChunks
\* t occurs in s as a substring.
Occurs(t, s) ==
  \E a \in 1..(Len(s) + 1) : \A k \in 1..Len(t) : a + k - 1 <= Len(s) /\ s[a + k - 1] = t[k]

\* A call of searchChunks has returned.
Searched == call.fn = "searchChunks" /\ call.done

\* The chunk is left out by the category filter of the call.
FilteredOut(c) ==
  call.categoryFilter \notin {NoFilter, "Geral"} /\ c.category # call.categoryFilter

\* The place in the store of the i-th returned chunk.
PosOf(i) == CHOOSE k \in 1..Len(call.scored) : call.scored[k] = call.ret[i]

\* The places of the chunks with a positive score.
ScoringPlaces == {k \in 1..Len(call.scored) : call.scored[k].score > 0}

\* The words of the lower-cased query: the maximal runs without whitespace, as
\* pairs of their first and last position, of at least 3 characters.
TermRuns(ql) ==
  {r \in (1..Len(ql)) \X (1..Len(ql)) :
     /\ r[2] - r[1] >= 2
     /\ \A k \in r[1]..r[2] : ~IsSpace(ql[k])
     /\ (r[1] = 1 \/ IsSpace(ql[r[1] - 1]))
     /\ (r[2] = Len(ql) \/ IsSpace(ql[r[2] + 1]))}

\* The score the scoring rule gives chunk c for the query of the call.
RuleScore(c) ==
  LET ql == ToLowerCase(call.query)
  IN  Cardinality({r \in TermRuns(ql) :
                     Occurs(SubSeq(ql, r[1], r[2]), ToLowerCase(c.content))})
        + (IF c.caseName # <<>> /\ Occurs(ToLowerCase(c.caseName), ql) THEN 3 ELSE 0)
        + (IF c.description # <<>> /\ Occurs(ToLowerCase(c.description), ql) THEN 2 ELSE 0)

\* C13: with a category filter other than the default 'Geral', no returned
\* chunk has a category different from the filter.
C13_CategoryFilterExclusive ==
  (Searched /\ call.categoryFilter \notin {NoFilter, "Geral"}) =>
    \A i \in 1..Len(call.ret) : call.ret[i].category = call.categoryFilter

\* A filtered search returns chunks while the store holds a chunk of another
\* category whose content has the word asked for.
C13_Witness ==
  /\ Searched
  /\ call.categoryFilter = "Saude"
  /\ call.query = WordCasos
  /\ Len(call.ret) > 0
  /\ \E i \in 1..Len(Chunks) :
       Chunks[i].category # "Saude" /\ Occurs(WordCasos, ToLowerCase(Chunks[i].content))

\* C14: searchChunks returns only chunks with score > 0, ordered by
\* non-increasing score with equal scores in their stored order, at most
\* TopK = 15 of them, and these are the highest-ranked of all scoring chunks.
C14_SearchRanking ==
  Searched =>
    /\ \A i \in 1..Len(call.ret) :
         /\ call.ret[i].score > 0
         /\ \E k \in 1..Len(call.scored) : call.scored[k] = call.ret[i]
    /\ \A i, j \in 1..Len(call.ret) :
         i < j => \/ call.ret[i].score > call.ret[j].score
                  \/ /\ call.ret[i].score = call.ret[j].score
                     /\ PosOf(i) < PosOf(j)
    /\ Len(call.ret) <= TopK
    /\ Len(call.ret) = (IF Cardinality(ScoringPlaces) < TopK
                        THEN Cardinality(ScoringPlaces) ELSE TopK)
    /\ \A k \in ScoringPlaces :
         (\A i \in 1..Len(call.ret) : PosOf(i) # k) =>
           \A i \in 1..Len(call.ret) :
             \/ call.ret[i].score > call.scored[k].score
             \/ /\ call.ret[i].score = call.scored[k].score
                /\ PosOf(i) < k

\* More than TopK chunks score, with three different scores among them; the
\* result is cut, puts a later chunk before an earlier one, and a chunk that
\* scores nothing is in the store.
C14_Witness ==
  /\ Searched
  /\ Cardinality(ScoringPlaces) > TopK
  /\ Len(call.ret) = TopK
  /\ Cardinality({call.ret[i].score : i \in 1..Len(call.ret)}) >= 3
  /\ \E i, j \in 1..Len(call.ret) : i < j /\ PosOf(i) > PosOf(j)
  /\ \E k \in 1..Len(call.scored) : call.scored[k].score = 0

\* C15: the score of a chunk that the filter does not leave out is the number
\* of query terms (lower-cased, split on whitespace, of length >= 3) that
\* occur in the lower-cased content, plus 3 if caseName is non-empty and the
\* lower-cased query contains it, plus 2 if description is non-empty and the
\* lower-cased query contains it.  For the query 'dengue casos 2023' a chunk
\* with caseName 'Dengue', period '2023' and a content that has of the terms
\* only 'casos' scores 1 + 3, and it is returned while no chunk scoring 0 is.
C15_ScoringValue ==
  Searched =>
    /\ \A k \in 1..Len(call.scored) :
         ~FilteredOut(call.scored[k]) => call.scored[k].score = RuleScore(call.scored[k])
    /\ call.query = QueryScenario =>
         \A k \in 1..Len(call.scored) :
           LET c == call.scored[k]
               content == ToLowerCase(c.content)
           IN  ( /\ ~FilteredOut(c)
                 /\ c.caseName = <<"D", "e", "n", "g", "u", "e">>
                 /\ c.period = <<"2", "0", "2", "3">>
                 /\ ~Occurs(c.description, ToLowerCase(call.query))
                 /\ Occurs(WordCasos, content)
                 /\ ~Occurs(WordDengue, content)
                 /\ ~Occurs(<<"2", "0", "2", "3">>, content) ) =>
               /\ c.score = 4
               /\ Len(call.scored) <= TopK => \E i \in 1..Len(call.ret) : call.ret[i] = c
               /\ \A m \in 1..Len(call.scored) :
                    call.scored[m].score = 0 =>
                      \A i \in 1..Len(call.ret) : call.ret[i].id # call.scored[m].id

\* The scenario: the one returned chunk scores 4 and the store holds a chunk
\* that scores 0.
C15_Witness ==
  /\ Searched
  /\ call.query = QueryScenario
  /\ Len(call.ret) = 1
  /\ call.ret[1].score = 4
  /\ call.ret[1].period = <<"2", "0", "2", "3">>
  /\ \E k \in 1..Len(call.scored) : call.scored[k].score = 0

\* C16 as stated: searchChunks returns an empty sequence whenever the chunk
\* store is empty or the query has no term of at least 3 characters.
C16_EmptyResultsAsStated ==
  (Searched /\ (Len(Chunks) = 0 \/ TermRuns(ToLowerCase(call.query)) = {})) =>
    call.ret = <<>>

\* C16: searchChunks returns an empty sequence whenever the chunk store is
\* empty, or the query has no term of at least 3 characters and contains no
\* stored chunk's non-empty caseName or description (compared in lower case).
C16_EmptyResults ==
  LET ql == ToLowerCase(call.query)
      named(c) == \/ c.caseName # <<>> /\ Occurs(ToLowerCase(c.caseName), ql)
                  \/ c.description # <<>> /\ Occurs(ToLowerCase(c.description), ql)
  IN  (Searched /\ (\/ Len(Chunks) = 0
                    \/ /\ TermRuns(ql) = {}
                       /\ \A i \in 1..Len(Chunks) : ~named(Chunks[i]))) =>
        call.ret = <<>>

\* A query of short words only finds nothing in a store that holds chunks with
\* and without a caseName.
C16_Witness ==
  /\ Searched
  /\ Len(call.query) > 0
  /\ TermRuns(ToLowerCase(call.query)) = {}
  /\ \E i \in 1..Len(Chunks) : Chunks[i].caseName # <<>>
  /\ \E i \in 1..Len(Chunks) : Chunks[i].caseName = <<>>
  /\ call.ret = <<>>

\* The content b begins with the content a.
Extends(b, a) == Len(a) <= Len(b) /\ SubSeq(b, 1, Len(a)) = a

\* The content b has a term of the query that the content a has not.
OneMoreTerm(b, a) ==
  LET ql == ToLowerCase(call.query)
  IN  \E r \in TermRuns(ql) :
        /\ Occurs(SubSeq(ql, r[1], r[2]), ToLowerCase(b))
        /\ ~Occurs(SubSeq(ql, r[1], r[2]), ToLowerCase(a))

\* C17: for one query and two chunks of the same metadata, the one whose
\* content extends the other's so that it has one more of the query's terms
\* never scores lower.
C17_ScoreMonotone ==
  Searched =>
    \A i, j \in 1..Len(call.scored) :
      LET a == call.scored[i]
          b == call.scored[j]
      IN  ( /\ a.category = b.category
            /\ a.caseName = b.caseName
            /\ a.description = b.description
            /\ Extends(b.content, a.content)
            /\ OneMoreTerm(b.content, a.content) ) =>
          b.score >= a.score

\* Two chunks of the same metadata, one extending the other by a term, the
\* shorter one scoring for a term too, the longer one scoring more.
C17_Witness ==
  /\ Searched
  /\ \E i, j \in 1..Len(call.scored) :
       LET a == call.scored[i]
           b == call.scored[j]
       IN  /\ a.caseName = b.caseName /\ a.description = b.description
           /\ a.category = b.category
           /\ Extends(b.content, a.content)
           /\ OneMoreTerm(b.content, a.content)
           /\ OneMoreTerm(a.content, <<>>)
           /\ b.score > a.score

\* --------------------------------------------------- the claims on the chunkers
\* The paragraphs of a text as they can be told apart in a chunk: the pieces
\* of the split on blank lines, trimmed, the empty ones left out.
ParagraphsOf(text) ==
  LET pieces == SplitParagraphs(text)
      filled(p) == Len(p) > 0
  IN  SelectSeq([i \in 1..Len(pieces) |-> Trim(pieces[i])], filled)

\* The paragraphs of the chunks, read in chunk order.
RECURSIVE ParagraphsOfChunks(_)
ParagraphsOfChunks(chunks) ==
  IF Len(chunks) = 0 THEN <<>>
  ELSE ParagraphsOf(chunks[1]) \o ParagraphsOfChunks(Tail(chunks))

ChunkedText == call.fn = "chunkText" /\ call.done

ChunkedTable == call.fn = "chunkTable" /\ call.done

\* C18: the paragraphs contained in the chunks that chunkText returns, read
\* in chunk order, are the paragraphs of the input in the original order,
\* none lost, duplicated or reordered.
C18_TextChunkReconstruction ==
  ChunkedText => ParagraphsOfChunks(call.ret) = ParagraphsOf(call.text)

\* Three paragraphs, not all the same, come back in two chunks, one of which
\* joins two paragraphs.
C18_Witness ==
  /\ ChunkedText
  /\ Len(ParagraphsOf(call.text)) = 3
  /\ ParagraphsOf(call.text)[1] # ParagraphsOf(call.text)[2]
  /\ Len(call.ret) = 2
  /\ \E i \in 1..2 : Len(ParagraphsOf(call.ret[i])) = 2

\* The lines of a text: the pieces between its line feeds.
RECURSIVE LinesOf(_)
LinesOf(s) ==
  LET feeds == {i \in 1..Len(s) : s[i] = NL}
  IN  IF feeds = {} THEN << s >>
      ELSE LET f == CHOOSE i \in feeds : \A k \in feeds : i <= k
           IN  << SubSeq(s, 1, f - 1) >> \o LinesOf(SubSeq(s, f + 1, Len(s)))

\* C19: for n rows and group size s, chunkTable returns ceil(n/s) chunks (none
\* for no rows), each the header line of the first row's keys followed by the
\* lines of at most s consecutive rows in input order, every chunk but the
\* last with exactly s, so that the data lines are n in all; 25 rows in groups
\* of 20 give chunks of 20 and 5 data lines.
C19_TableRowConservation ==
  ChunkedTable =>
    LET n == Len(call.rows)
        s == call.size
        header == Join(Keys(call.rows[1]), ColSep)
    IN  /\ Len(call.ret) = (n + s - 1) \div s
        /\ \A c \in 1..Len(call.ret) :
             LET lines == LinesOf(call.ret[c])
                 first == (c - 1) * s
                 count == IF c < Len(call.ret) THEN s ELSE n - first
             IN  /\ lines[1] = header
                 /\ Len(lines) = 1 + count
                 /\ count >= 1 /\ count <= s
                 /\ \A j \in 1..count :
                      lines[1 + j] = RenderRow(call.rows[first + j], Keys(call.rows[1]))
        /\ (n = 25 /\ s = 20) =>
             /\ Len(call.ret) = 2
             /\ Len(LinesOf(call.ret[1])) = 21
             /\ Len(LinesOf(call.ret[2])) = 6

\* 25 rows of a sheet with blank cells and line breaks in cells, in groups of
\* 20: two chunks.
C19_Witness ==
  /\ ChunkedTable
  /\ Len(call.rows) = 25
  /\ call.size = 20
  /\ Len(call.ret) = 2
  /\ \E i \in 1..25 : Len(call.rows[i]) = 1
  /\ \E i \in 1..25 : \E j \in 1..Len(call.rows[i]) : NL \in Range(call.rows[i][j].v)

\* C20: a chunk that chunkText returns is longer than targetSize only when
\* it is a single paragraph; a chunk that joins two or more paragraphs, the
\* separators counted, is at most targetSize characters long.
C20_TextChunkSizeBound ==
  ChunkedText =>
    \A i \in 1..Len(call.ret) :
      Len(call.ret[i]) > call.targetSize => Len(ParagraphsOf(call.ret[i])) <= 1

\* ------------------------------------------------ the claims on the frame
\* C21: an upload changes or reorders no stored document or chunk, it only
\* adds its own at the end; a delete changes or reorders no document or chunk
\* other than those whose id / fileId is the deleted id, which it removes; no
\* other step changes the store; and a stored document record stays as it was
\* written for as long as it is stored.
C21_FrameOfMutations ==
  [][ LET isUpload(n) == req[n].pc = "resolved" /\ req'[n].pc = "done"
          isDelete    == res'.op = "delete" /\ res' # res
      IN  /\ \A n \in 1..MaxUploads :
               isUpload(n) =>
                 /\ Len(Files') >= Len(Files) /\ SubSeq(Files', 1, Len(Files)) = Files
                 /\ Len(Chunks') >= Len(Chunks) /\ SubSeq(Chunks', 1, Len(Chunks)) = Chunks
                 /\ \A i \in (Len(Files) + 1)..Len(Files') : Files'[i].id = RandomUUID(n)
                 /\ \A i \in (Len(Chunks) + 1)..Len(Chunks') : Chunks'[i].fileId = RandomUUID(n)
          /\ isDelete =>
               LET otherF(f) == f.id # res'.id
                   otherC(c) == c.fileId # res'.id
               IN  /\ Files' = SelectSeq(Files, otherF)
                   /\ Chunks' = SelectSeq(Chunks, otherC)
          /\ (~isDelete /\ \A n \in 1..MaxUploads : ~isUpload(n)) =>
               Files' = Files /\ Chunks' = Chunks
          /\ \A i \in 1..Len(Files) : \A j \in 1..Len(Files') :
               Files[i].id = Files'[j].id => Files[i] = Files'[j]
    ]_vars

\* A delete has taken the first of two stored documents and its two chunks
\* away; the second document and its chunk are what is left.
C21_Witness ==
  /\ res.op = "delete"
  /\ res.id = RandomUUID(1)
  /\ req[1].pc = "done" /\ Len(req[1].contentChunks) = 2
  /\ req[2].pc = "done" /\ Len(req[2].contentChunks) = 1
  /\ Len(Files) = 1 /\ Files[1].id = RandomUUID(2)
  /\ Len(Chunks) = 1 /\ Chunks[1].fileId = RandomUUID(2)

\* ------------------------------------------- the claims on unreadable files
\* C22: when a store file is missing or does not parse, every operation goes
\* on as over an empty collection and answers without an error: the listing
\* is empty, and the next upload or delete writes the collection anew from
\* the empty default, so that it holds the upload's own records only (none
\* after a delete).
C22_ReadFailureFallsBack ==
  [][ LET unreadable(f) == f.state # "ok"
          isUpload(n)   == req[n].pc = "resolved" /\ req'[n].pc = "done"
      IN  /\ (res'.op = "list" /\ res' # res) =>
               /\ res'.status = 200
               /\ res'.files = (IF unreadable(dbFile) THEN <<>> ELSE dbFile.data.files)
          /\ \A n \in 1..MaxUploads :
               isUpload(n) =>
                 LET blocks == req[n].contentChunks
                 IN  /\ res'.status = 200
                     /\ Len(res'.file) = 1 /\ res'.file[1].id = RandomUUID(n)
                     /\ unreadable(dbFile) =>
                          dbFile' = [state |-> "ok", data |-> [files |-> res'.file]]
                     /\ unreadable(chunksFile) =>
                          /\ chunksFile'.state = "ok"
                          /\ Len(chunksFile'.data) = Len(blocks)
                          /\ \A j \in 1..Len(blocks) :
                               /\ chunksFile'.data[j].fileId = RandomUUID(n)
                               /\ chunksFile'.data[j].content = blocks[j]
          /\ (res'.op = "delete" /\ res' # res) =>
               /\ res'.status = 200
               /\ unreadable(dbFile) =>
                    dbFile' = [state |-> "ok", data |-> [files |-> <<>>]]
               /\ unreadable(chunksFile) =>
                    chunksFile' = [state |-> "ok", data |-> <<>>]
    ]_vars

\* An upload was stored over a db.json that could not be read: the document
\* of the earlier run is gone from the documents while its chunks are still
\* in chunks.json, which could be read.
C22_Witness ==
  /\ res.op = "upload" /\ res.status = 200 /\ res.id = RandomUUID(1)
  /\ dbFile.state = "ok"
  /\ Len(Files) = 1 /\ Files[1].id = RandomUUID(1)
  /\ \E i \in 1..Len(Chunks) : Chunks[i].fileId = RandomUUID(0)
  /\ \E i \in 1..Len(Chunks) : Chunks[i].fileId = RandomUUID(1)

\* ------------------------------------------------- the claim on the client
\* C23: the view is 'upload' only if isAuthenticated is true; isAuthenticated
\* becomes true only by the submit of a password equal to ACCESS_PASSWORD;
\* and the submit of a wrong password changes neither the view nor
\* isAuthenticated.
C23_PasswordGate ==
  [][ /\ ui'.view = "upload" => ui'.isAuthenticated
      /\ (~ui.isAuthenticated /\ ui'.isAuthenticated) =>
           /\ ui.showAuthModal
           /\ ui.authPassword = ACCESS_PASSWORD
           /\ ui'.authPassword = <<>> /\ ~ui'.showAuthModal
      /\ (ui.showAuthModal /\ ui.authPassword # ACCESS_PASSWORD) =>
           ui'.isAuthenticated = ui.isAuthenticated
      /\ ui'.alert # ui.alert =>
           /\ ui.authPassword # ACCESS_PASSWORD
           /\ ui'.view = ui.view
           /\ ui'.isAuthenticated = ui.isAuthenticated
    ]_vars

\* After a wrong password was refused, the right one was submitted: the user
\* is authenticated and sees the upload view.
C23_Witness ==
  /\ ui.alert = "Senha incorreta!"
  /\ ui.isAuthenticated
  /\ ui.view = "upload"

====
